---- MODULE Spec2Model ----
(***************************************************************************)
(* slack-polls: a poll message with four slot groups, created from a form *)
(* submission and mutated in place by button clicks.                      *)
(*                                                                         *)
(* Go strings are modelled as sequences of characters (one-character TLA+  *)
(* strings; a few fixed literals are kept as one chunk), so that           *)
(* strings.Split, strings.Join and strconv.Atoi are computed, not assumed. *)
(***************************************************************************)
EXTENDS Integers, Sequences, FiniteSets, TLC

\* ------------------------------------------------------------------ bounds

\* Number of distinct users that click buttons.
NumUsers == 2

\* Number of inbound interactions (form submissions and clicks) delivered.
MaxRequests == 4

\* Number of interactions that may be in progress at the same time.
MaxInFlight == 2

\* Number of poll messages that may be posted.
MaxPolls == 1

\* ------------------------------------------------------------------ state

VARIABLES
    mode,     \* "http" (SIGNING_SECRET set: webhook server) or "socket"
    msgs,     \* the platform's messages, the only durable state; ts = position
    reqs,     \* the interactions being handled, one record per handler run
    nreq,     \* interactions delivered so far
    lastWriter \* the handler run whose update the platform applied last, or 0

vars == << mode, msgs, reqs, nreq, lastWriter >>

\* ------------------------------------------------------------ Go strings

\* The empty-group text, the literal ":" of the source.
Sentinel == <<":">>

\* The group separator, the literal ", " of the source.
Separator == <<",", " ">>

RECURSIVE IndexFrom(_, _, _)
\* The first occurrence of sep in s at position i or later, 0 if none.
IndexFrom(s, sep, i) ==
    IF i + Len(sep) - 1 > Len(s) THEN 0
    ELSE IF SubSeq(s, i, i + Len(sep) - 1) = sep THEN i
    ELSE IndexFrom(s, sep, i + 1)

\* strings.Index(s, sep): 1-based position of the first occurrence, 0 if none.
StringsIndex(s, sep) == IndexFrom(s, sep, 1)

RECURSIVE StringsSplit(_, _)
\* strings.Split(s, sep) for a non-empty sep: cut at every occurrence, left to right.
StringsSplit(s, sep) ==
    LET m == StringsIndex(s, sep)
    IN  IF m = 0
        THEN << s >>
        ELSE << SubSeq(s, 1, m - 1) >>
             \o StringsSplit(SubSeq(s, m + Len(sep), Len(s)), sep)

RECURSIVE StringsJoin(_, _)
\* strings.Join(elems, sep).
StringsJoin(elems, sep) ==
    IF Len(elems) = 0 THEN << >>
    ELSE IF Len(elems) = 1 THEN elems[1]
    ELSE elems[1] \o sep \o StringsJoin(Tail(elems), sep)

Digits == [c \in {"0", "1", "2", "3", "4", "5", "6", "7", "8", "9"} |->
             CASE c = "0" -> 0 [] c = "1" -> 1 [] c = "2" -> 2 [] c = "3" -> 3
               [] c = "4" -> 4 [] c = "5" -> 5 [] c = "6" -> 6 [] c = "7" -> 7
               [] c = "8" -> 8 [] c = "9" -> 9]

RECURSIVE DecimalValue(_)
DecimalValue(s) ==
    IF Len(s) = 0 THEN 0
    ELSE 10 * DecimalValue(SubSeq(s, 1, Len(s) - 1)) + Digits[s[Len(s)]]

\* strconv.Atoi with the error dropped (optionSelected, _ := ...): the value of
\* an optionally signed decimal numeral, and 0 for anything else.
Atoi(s) ==
    LET signed == Len(s) > 0 /\ s[1] \in {"+", "-"}
        body   == IF signed THEN Tail(s) ELSE s
    IN  IF Len(body) = 0 \/ \E i \in DOMAIN body : body[i] \notin DOMAIN Digits
        THEN 0
        ELSE IF signed /\ s[1] = "-" THEN 0 - DecimalValue(body)
        ELSE DecimalValue(body)

\* --------------------------------------------------------- GroupReconciler

\* Mutant: the sentinel check is missing, the user is appended after ":".
appendUser_afterSentinel(text, userID) == text \o Separator \o userID

\* Mutant: the user is put in front of the group instead of at its end.
appendUser_prepend(text, userID) ==
    IF text = Sentinel THEN userID ELSE userID \o Separator \o text

appendUser(text, userID) ==
    IF text = Sentinel THEN userID ELSE text \o Separator \o userID

\* Mutant: only the first element is compared.
contains_firstOnly(text, arr) == Len(arr) > 0 /\ arr[1] = text

contains(text, arr) == \E i \in DOMAIN arr : arr[i] = text

\* Mutant: the elements after the removed one are dropped (arr[:index]).
remove_truncate(text, arr) ==
    LET hits  == { i \in DOMAIN arr : arr[i] = text }
        index == IF hits = {} THEN 1
                 ELSE CHOOSE i \in hits : \A j \in hits : i <= j
    IN  SubSeq(arr, 1, index - 1)

\* Mutant: the last element is dropped, whichever element matched.
remove_last(text, arr) == SubSeq(arr, 1, Len(arr) - 1)

\* remove deletes the first occurrence; index stays 0 (the first element) when
\* there is none.
remove(text, arr) ==
    LET hits  == { i \in DOMAIN arr : arr[i] = text }
        index == IF hits = {} THEN 1
                 ELSE CHOOSE i \in hits : \A j \in hits : i <= j
    IN  SubSeq(arr, 1, index - 1) \o SubSeq(arr, index + 1, Len(arr))

\* Mutant: the scan stops one group early.
ScanUserIndex_skipsLast(user, groups) ==
    LET hits == { i \in 0..(Len(groups) - 2) :
                    contains(user, StringsSplit(groups[i + 1], Separator)) }
    IN  IF hits = {} THEN -1 ELSE CHOOSE i \in hits : \A j \in hits : j <= i

\* The scan of updateGroups: userIndex is overwritten by every group that
\* holds the user, so the last such group stays; -1 when there is none.
\* Indices are 0-based as in the source.
ScanUserIndex(user, groups) ==
    LET hits == { i \in 0..(Len(groups) - 1) :
                    contains(user, StringsSplit(groups[i + 1], Separator)) }
    IN  IF hits = {} THEN -1 ELSE CHOOSE i \in hits : \A j \in hits : j <= i

\* Mutant: the groups are parsed and joined again, but the user is not removed.
RemoveAndRejoin_keepsUser(user, userIndex, groups) ==
    [i \in DOMAIN groups |->
       LET t == StringsJoin(StringsSplit(groups[i], Separator), Separator)
       IN  IF t = << >> THEN Sentinel ELSE t]

\* The removal half of updateGroups: the user is removed from the parsed group
\* userIndex, every group is joined again, and an empty text becomes ":".
RemoveAndRejoin(user, userIndex, groups) ==
    LET parsedGroups == [i \in DOMAIN groups |->
                           IF i = userIndex + 1
                           THEN remove(user, StringsSplit(groups[i], Separator))
                           ELSE StringsSplit(groups[i], Separator)]
    IN  [i \in DOMAIN groups |->
           LET t == StringsJoin(parsedGroups[i], Separator)
           IN  IF t = << >> THEN Sentinel ELSE t]

\* Mutant: the test index != userIndex is missing, a toggle-off adds the user back.
updateGroups_readds(user, index, groups) ==
    LET userIndex == ScanUserIndex(user, groups)
        rejoined == RemoveAndRejoin(user, userIndex, groups)
    IN  IF userIndex = -1
        THEN [groups EXCEPT ![index + 1] = appendUser(groups[index + 1], user)]
        ELSE [rejoined EXCEPT ![index + 1] = appendUser(rejoined[index + 1], user)]

\* updateGroups(user, index, groups): groups is a sequence of four display
\* strings, index the 0-based target.  Defined for 0 <= index < Len(groups);
\* the source panics on any other index.
updateGroups(user, index, groups) ==
    LET userIndex == ScanUserIndex(user, groups)
        rejoined == RemoveAndRejoin(user, userIndex, groups)
    IN  IF userIndex = -1
        THEN [groups EXCEPT ![index + 1] = appendUser(groups[index + 1], user)]
        ELSE IF index # userIndex
        THEN [rejoined EXCEPT ![index + 1] = appendUser(rejoined[index + 1], user)]
        ELSE rejoined

\* Every path of updateGroups that does not return "toggle-off" indexes groups
\* with index (groups[index] = appendUser(...)), and a toggle-off has index ==
\* userIndex, a valid position: the call panics exactly when index is outside
\* the slice.
updateGroupsPanics(index, groups) == index < 0 \/ index >= Len(groups)

\* ------------------------------------------------------------ data shapes

\* Block index of the section that holds the choice labels and slot groups.
blockSetIndex == 2

\* Field positions (0-based) of the four slot groups inside that section.
GroupFields == << 1, 3, 5, 7 >>

\* The button values / choice numbers of the form-submission loop.
NumStrs == << <<"1">>, <<"2">>, <<"3">>, <<"4">> >>

IdDigits == << "1", "2", "3", "4", "5", "6", "7", "8", "9" >>

\* User identifiers as the platform sends them.
UserIDs == { << "U", IdDigits[n] >> : n \in 1..NumUsers }

\* slack.NewTextBlockObject(type, text, emoji, false)
NewTextBlockObject(type, text, emoji) ==
    [type |-> type, text |-> text, emoji |-> emoji]

NoText == [type |-> "", text |-> << >>, emoji |-> FALSE]

\* slack.NewButtonBlockElement(actionID, value, text)
NewButtonBlockElement(actionID, value, text) ==
    [action_id |-> actionID, value |-> value, text |-> text]

\* One shape for every block: a section uses text/fields, an action block elements.
Block(type, text, fields, elements) ==
    [type |-> type, text |-> text, fields |-> fields, elements |-> elements]

\* The zero value a Go map lookup gives for a missing key.
MapGet(m, k, zero) == IF k \in DOMAIN m THEN m[k] ELSE zero

ZeroBlockAction == [Value |-> << >>, SelectedConversation |-> << >>]

\* View.State.Values[blockID][actionID]
StateValue(values, blockID, actionID) ==
    MapGet(MapGet(values, blockID, << >>), actionID, ZeroBlockAction)

NoMessage == [ts |-> 0, blocks |-> << >>]

\* slack.InteractionCallback, the fields the handlers read.
InteractionCallback(type, user, channel, message, actions, values) ==
    [type |-> type, user |-> user, channel |-> channel, message |-> message,
     actions |-> actions, values |-> values]

\* The HTTP status of a response: 200 when the handler returns without writing
\* one, http.StatusUnauthorized or http.StatusInternalServerError where it
\* writes one.
StatusOK == "200"
StatusUnauthorized == "401"
StatusInternalServerError == "500"
NoStatus == ""

\* What a handler emits, in order: the acknowledgement to the transport, the
\* outbound platform call, the HTTP status written.
Event(op, channel, ts, blocks, status) ==
    [op |-> op, channel |-> channel, ts |-> ts, blocks |-> blocks, status |-> status]

AckEvent == Event("ack", << >>, 0, << >>, NoStatus)
RespondEvent(status) == Event("respond", << >>, 0, << >>, status)

\* makeTextInputBlock(title, placeholder, returnName, blockName): the input
\* block's identifier and the action identifier its value comes back under.
makeTextInputBlock(returnName, blockName) ==
    [block_id |-> blockName, action_id |-> returnName]

\* generateModalRequest: the six input blocks of the poll form, in order.
generateModalRequest ==
    << makeTextInputBlock(<< "question" >>, << "question" >>) >>
    \o [n \in 1..4 |-> makeTextInputBlock(<< "choice" >> \o NumStrs[n],
                                          << "choice" >> \o NumStrs[n])]
    \o << [block_id |-> << "channel" >>, action_id |-> << "channelActionID" >>] >>

\* c.Client.OpenView(triggerID, modalRequest)
OpenViewCall == Event("open", << >>, 0, generateModalRequest, NoStatus)


\* -------------------------------------------------- InteractionDispatcher

\* userToAdd: the mention of a user identifier.
Mention(userID) == << "<", "@" >> \o userID \o << ">" >>

\* The read loop: the texts at the four group positions of the section.
GroupTexts(blocks) ==
    [k \in 1..4 |-> blocks[blockSetIndex + 1].fields[GroupFields[k] + 1].text]

\* Mutant: the write-back map pairs the fields with the groups in reverse.
WriteBack_reversed == [f \in {1, 3, 5, 7} |-> (7 - f) \div 2]

\* The write-back map {1: 0, 3: 1, 5: 2, 7: 3}: field position -> group index.
WriteBack == [f \in {1, 3, 5, 7} |-> (f - 1) \div 2]

\* The write loop: every mapped field takes its group's text.
SetGroupTexts(blocks, groupTexts) ==
    [blocks EXCEPT ![blockSetIndex + 1].fields =
        [f \in DOMAIN @ |->
            IF (f - 1) \in DOMAIN WriteBack
            THEN [@[f] EXCEPT !.text = groupTexts[WriteBack[f - 1] + 1]]
            ELSE @[f]]]

\* Mutant: the groups are read from the message as the platform holds it now,
\* not from the message carried by the payload.
BlockActionsCall_reread(i) ==
    LET userToAdd == Mention(i.user)
        optionSelected == Atoi(i.actions[1].value)
        held == { m \in DOMAIN msgs : msgs[m].ts = i.message.ts }
        newMessageBlocks == IF held = {} THEN i.message.blocks
                            ELSE msgs[CHOOSE m \in held : TRUE].blocks
        groupTexts == updateGroups(userToAdd, optionSelected - 1,
                                   GroupTexts(newMessageBlocks))
    IN  Event("update", i.channel, i.message.ts,
              SetGroupTexts(newMessageBlocks, groupTexts), NoStatus)

\* case slack.InteractionTypeBlockActions: the update-message call computed
\* from the payload alone.
BlockActionsCall(i) ==
    LET userToAdd == Mention(i.user)
        optionSelected == Atoi(i.actions[1].value)
        newMessageBlocks == i.message.blocks
        groupTexts == updateGroups(userToAdd, optionSelected - 1,
                                   GroupTexts(newMessageBlocks))
    IN  Event("update", i.channel, i.message.ts,
              SetGroupTexts(newMessageBlocks, groupTexts), NoStatus)

\* Mutant: no fallback to the submitting user when no channel was selected.
ViewSubmissionCall_noFallback(i) ==
    LET choiceKey(n) == << "choice" >> \o NumStrs[n]
        text(n) == NewTextBlockObject("plain_text",
                       StateValue(i.values, choiceKey(n), choiceKey(n)).Value, FALSE)
        textBlocks == [f \in 1..8 |->
                         IF f % 2 = 1 THEN text((f + 1) \div 2)
                         ELSE NewTextBlockObject("mrkdwn", Sentinel, FALSE)]
        buttons == [n \in 1..4 |->
                      NewButtonBlockElement(<< "actionID" >> \o NumStrs[n],
                                            NumStrs[n], text(n))]
        question == StateValue(i.values, << "question" >>, << "question" >>).Value
    IN  Event("post",
              StateValue(i.values, << "channel" >>,
                         << "channelActionID" >>).SelectedConversation,
              0,
              << Block("section", NewTextBlockObject("plain_text", question, TRUE),
                       << >>, << >>),
                 Block("actions", NoText, << >>, buttons),
                 Block("section", NoText, textBlocks, << >>) >>,
              NoStatus)

\* Mutant: each pair of fields is appended group first, label second.
ViewSubmissionCall_groupFirst(i) ==
    LET choiceKey(n) == << "choice" >> \o NumStrs[n]
        text(n) == NewTextBlockObject("plain_text",
                       StateValue(i.values, choiceKey(n), choiceKey(n)).Value, FALSE)
        textBlocks == [f \in 1..8 |->
                         IF f % 2 = 0 THEN text(f \div 2)
                         ELSE NewTextBlockObject("mrkdwn", Sentinel, FALSE)]
        buttons == [n \in 1..4 |->
                      NewButtonBlockElement(<< "actionID" >> \o NumStrs[n],
                                            NumStrs[n], text(n))]
        question == StateValue(i.values, << "question" >>, << "question" >>).Value
        selected == StateValue(i.values, << "channel" >>,
                               << "channelActionID" >>).SelectedConversation
    IN  Event("post", IF selected = << >> THEN i.user ELSE selected, 0,
              << Block("section", NewTextBlockObject("plain_text", question, TRUE),
                       << >>, << >>),
                 Block("actions", NoText, << >>, buttons),
                 Block("section", NoText, textBlocks, << >>) >>,
              NoStatus)

\* case slack.InteractionTypeViewSubmission: the post-message call.
ViewSubmissionCall(i) ==
    LET choiceKey(n) == << "choice" >> \o NumStrs[n]
        str(n) == StateValue(i.values, choiceKey(n), choiceKey(n)).Value
        text(n) == NewTextBlockObject("plain_text", str(n), FALSE)
        textBlocks == [f \in 1..8 |->
                         IF f % 2 = 1 THEN text((f + 1) \div 2)
                         ELSE NewTextBlockObject("mrkdwn", Sentinel, FALSE)]
        buttons == [n \in 1..4 |->
                      NewButtonBlockElement(<< "actionID" >> \o NumStrs[n],
                                            NumStrs[n], text(n))]
        actionBlock == Block("actions", NoText, << >>, buttons)
        sectionBlock == Block("section", NoText, textBlocks, << >>)
        question == StateValue(i.values, << "question" >>, << "question" >>).Value
        headerBlock == Block("section",
                             NewTextBlockObject("plain_text", question, TRUE),
                             << >>, << >>)
        selected == StateValue(i.values, << "channel" >>,
                               << "channelActionID" >>).SelectedConversation
        channel == IF selected = << >> THEN i.user ELSE selected
    IN  Event("post", channel, 0, << headerBlock, actionBlock, sectionBlock >>, NoStatus)

\* The block-action branch panics: BlockActions[0] of an empty list,
\* BlockSet[blockSetIndex] of a short block set, the type assertion
\* .(*slack.SectionBlock) on another block, Fields[i] of a short section, or
\* updateGroups with an index outside the four groups.
BlockActionsPanics(i) ==
    IF Len(i.actions) = 0 THEN TRUE
    ELSE IF Len(i.message.blocks) < blockSetIndex + 1 THEN TRUE
    ELSE IF i.message.blocks[blockSetIndex + 1].type # "section" THEN TRUE
    ELSE IF \E k \in 1..4 :
               Len(i.message.blocks[blockSetIndex + 1].fields) < GroupFields[k] + 1
         THEN TRUE
    ELSE updateGroupsPanics(Atoi(i.actions[1].value) - 1,
                            GroupTexts(i.message.blocks))

\* The switch of either handler panics on this payload.
DispatchPanics(i) == i.type = "block_actions" /\ BlockActionsPanics(i)

\* Mutant: the default case falls into the view-submission branch.
Dispatch_defaultPosts(i) ==
    CASE i.type = "block_actions" -> << BlockActionsCall(i) >>
      [] OTHER -> << ViewSubmissionCall(i) >>

\* ModalHandler's switch i.Type, up to the outbound call: the calls it issues,
\* none in the default case.
Dispatch(i) ==
    CASE i.type = "block_actions" -> << BlockActionsCall(i) >>
      [] i.type = "view_submission" -> << ViewSubmissionCall(i) >>
      [] OTHER -> << >>

\* Mutant: the socket handler addresses the update to the clicking user.
SocketBlockActionsCall_toUser(callback) ==
    [BlockActionsCall(callback) EXCEPT !.channel = callback.user]

\* ModalSocketHandler, case slack.InteractionTypeBlockActions: its own copy of
\* the read loop, the reconciliation and the write loop.
SocketBlockActionsCall(callback) ==
    LET messageTimestamp == callback.message.ts
        userToAdd == << "<", "@" >> \o callback.user \o << ">" >>
        channel == callback.channel
        optionSelected == Atoi(callback.actions[1].value)
        newMessageBlocks == callback.message.blocks
        section == newMessageBlocks[blockSetIndex + 1]
        read == << section.fields[2].text, section.fields[4].text,
                   section.fields[6].text, section.fields[8].text >>
        groupTexts == updateGroups(userToAdd, optionSelected - 1, read)
        written == [f \in DOMAIN section.fields |->
                      CASE f = 2 -> [section.fields[f] EXCEPT !.text = groupTexts[1]]
                        [] f = 4 -> [section.fields[f] EXCEPT !.text = groupTexts[2]]
                        [] f = 6 -> [section.fields[f] EXCEPT !.text = groupTexts[3]]
                        [] f = 8 -> [section.fields[f] EXCEPT !.text = groupTexts[4]]
                        [] OTHER -> section.fields[f]]
    IN  Event("update", channel, messageTimestamp,
              [newMessageBlocks EXCEPT ![blockSetIndex + 1].fields = written],
              NoStatus)

\* ModalSocketHandler, case slack.InteractionTypeViewSubmission: its own copy
\* of the message construction.
SocketViewSubmissionCall(callback) ==
    LET values == callback.values
        key(n) == << "choice" >> \o NumStrs[n]
        text(n) == NewTextBlockObject("plain_text",
                       StateValue(values, key(n), key(n)).Value, FALSE)
        colon == NewTextBlockObject("mrkdwn", << ":" >>, FALSE)
        textBlocks == << text(1), colon, text(2), colon,
                         text(3), colon, text(4), colon >>
        buttons == [n \in 1..4 |->
                      NewButtonBlockElement(<< "actionID" >> \o NumStrs[n],
                                            NumStrs[n], text(n))]
        headerText == NewTextBlockObject("plain_text",
                          StateValue(values, << "question" >>, << "question" >>).Value,
                          TRUE)
        selected == StateValue(values, << "channel" >>,
                               << "channelActionID" >>).SelectedConversation
    IN  Event("post", IF selected = << >> THEN callback.user ELSE selected, 0,
              << Block("section", headerText, << >>, << >>),
                 Block("actions", NoText, << >>, buttons),
                 Block("section", NoText, textBlocks, << >>) >>,
              NoStatus)

\* ModalSocketHandler's switch callback.Type, up to the outbound call.
SocketDispatch(callback) ==
    CASE callback.type = "block_actions" -> << SocketBlockActionsCall(callback) >>
      [] callback.type = "view_submission" -> << SocketViewSubmissionCall(callback) >>
      [] OTHER -> << >>

\* ------------------------------------------------------- handler records

Slots == 1..MaxInFlight

NoPayload == InteractionCallback("", << >>, << >>, NoMessage, << >>, << >>)

\* One handler run: where it is (pc), what it was sent (kind: an interaction
\* or a slash command; command: the command name; sigOK: the signature
\* verifies; dataOK: the body parses / the event data has the expected type;
\* payload), and what it did (parsed: it parsed the body; out: what it
\* emitted, in order; err: it saw an error; logged: it wrote a log line with
\* log.Printf; applied: its update was applied).
IdleReq == [pc |-> "idle", kind |-> "interactive", command |-> << >>,
            sigOK |-> TRUE, dataOK |-> TRUE, parsed |-> FALSE,
            payload |-> NoPayload,
            out |-> << >>, err |-> FALSE, logged |-> FALSE, applied |-> FALSE]

Running(h) == reqs[h].pc \in {"recv", "calling"}

\* A new interaction takes the first handler record that is not in use; what
\* a finished run left there is dropped.
Available(h) == ~Running(h) /\ \A g \in Slots : g < h => Running(g)

\* The record of the last writer is being dropped.
Forget(h) == IF lastWriter = h THEN 0 ELSE lastWriter

\* The webhook server verifies a signature, which a request may fail; the
\* socket connection has none.
Signatures == IF mode = "http" THEN BOOLEAN ELSE {TRUE}

\* The users that submit the form, the values they submit.
Submitters == { << "U", "1" >> }
Questions == { << "Lunch?" >> }
ChoiceLists == { << << "a" >>, << "b" >>, << "c" >>, << "d" >> >> }
Channels == { << >>, << "C", "1" >> }

\* The submitted form: question, four choices, the channel selector.
\* Interaction kinds the dispatcher has no case for.
OtherKinds == { "view_closed", "shortcut" }

\* Slash command names the platform may send.
Commands == { << "/poll" >>, << "/slash" >>, << "/vote" >> }

\* The ways a block-action payload is out of shape.
Defects == { "no_actions", "value_not_a_number", "value_zero", "value_five",
             "two_blocks", "not_a_section", "seven_fields" }

Malformed(i, defect) ==
    CASE defect = "no_actions" -> [i EXCEPT !.actions = << >>]
      [] defect = "value_not_a_number" -> [i EXCEPT !.actions[1].value = << "x" >>]
      [] defect = "value_zero" -> [i EXCEPT !.actions[1].value = << "0" >>]
      [] defect = "value_five" -> [i EXCEPT !.actions[1].value = << "5" >>]
      [] defect = "two_blocks" -> [i EXCEPT !.message.blocks = SubSeq(@, 1, 2)]
      [] defect = "not_a_section" -> [i EXCEPT !.message.blocks[3] = i.message.blocks[2]]
      [] defect = "seven_fields" ->
            [i EXCEPT !.message.blocks[3].fields = SubSeq(@, 1, 7)]

FormValues(q, cs, ch) ==
    LET input(v, conv) == [Value |-> v, SelectedConversation |-> conv]
        choice(n) == (<< "choice" >> \o NumStrs[n]) :>
                        ((<< "choice" >> \o NumStrs[n]) :> input(cs[n], << >>))
    IN  (<< "question" >> :> (<< "question" >> :> input(q, << >>)))
        @@ choice(1) @@ choice(2) @@ choice(3) @@ choice(4)
        @@ (<< "channel" >> :> (<< "channelActionID" >> :> input(<< >>, ch)))

Init ==
    /\ mode \in {"http", "socket"}
    /\ msgs = << >>
    /\ reqs = [h \in Slots |-> IdleReq]
    /\ nreq = 0
    /\ lastWriter = 0

\* ---------------------------------------------------------------- platform

\* A user submits the poll form: the platform delivers a view submission.
SubmitForm(h, u, q, cs, ch, sig) ==
    /\ nreq < MaxRequests
    /\ Available(h)
    /\ Len(msgs) + Cardinality({ g \in Slots :
            Running(g) /\ reqs[g].payload.type = "view_submission" }) < MaxPolls
    /\ reqs' = [reqs EXCEPT ![h] =
            [IdleReq EXCEPT !.pc = "recv", !.sigOK = sig,
                !.payload = InteractionCallback("view_submission", u, << >>,
                                NoMessage, << >>, FormValues(q, cs, ch))]]
    /\ nreq' = nreq + 1
    /\ lastWriter' = Forget(h)
    /\ UNCHANGED << mode, msgs >>

\* The block-action payload the platform builds for a click by user u on
\* button b of a message.
ClickOf(u, msg, b) ==
    InteractionCallback("block_actions", u, msg.channel,
        [ts |-> msg.ts, blocks |-> msg.blocks],
        << [value |-> msg.blocks[2].elements[b].value] >>, << >>)

\* A user clicks button b of message m: the platform delivers a block action
\* that carries the message as it is now.
ClickButton(h, u, m, b, sig) ==
    /\ nreq < MaxRequests
    /\ Available(h)
    /\ reqs' = [reqs EXCEPT ![h] =
            [IdleReq EXCEPT !.pc = "recv", !.sigOK = sig,
                !.payload = ClickOf(u, msgs[m], b)]]
    /\ nreq' = nreq + 1
    /\ lastWriter' = Forget(h)
    /\ UNCHANGED << mode, msgs >>

\* Four-group states that show the user in two groups, in the lower one alone
\* or after another user: states the reconciler does not produce, but which a
\* payload may carry (the handler reads the groups from the payload).
DuplicateGroups(u) ==
    LET texts == { Sentinel, Mention(u) }
                 \cup { Mention(o) \o Separator \o Mention(u) :
                           o \in UserIDs \ {u} }
    IN  { g \in [1..4 -> texts] :
            /\ Cardinality({ k \in 1..4 : g[k] # Sentinel }) = 2
            /\ \E k \in 1..4 : /\ g[k] = Mention(u)
                                /\ \A j \in (k + 1)..4 : g[j] = Sentinel }

\* A user clicks button b of message m, and the payload carries the message
\* with the given group texts.
ClickEdited(h, u, m, groups, b) ==
    /\ nreq < MaxRequests
    /\ Available(h)
    /\ reqs' = [reqs EXCEPT ![h] =
            [IdleReq EXCEPT !.pc = "recv",
                !.payload = ClickOf(u, [msgs[m] EXCEPT
                                !.blocks = SetGroupTexts(@, groups)], b)]]
    /\ nreq' = nreq + 1
    /\ lastWriter' = Forget(h)
    /\ UNCHANGED << mode, msgs >>

\* The platform delivers an interaction of a kind the dispatcher has no case for.
SendOtherKind(h, u, type, sig) ==
    /\ nreq < MaxRequests
    /\ Available(h)
    /\ reqs' = [reqs EXCEPT ![h] =
            [IdleReq EXCEPT !.pc = "recv", !.sigOK = sig,
                !.payload = InteractionCallback(type, u, << >>, NoMessage,
                                                << >>, << >>)]]
    /\ nreq' = nreq + 1
    /\ lastWriter' = Forget(h)
    /\ UNCHANGED << mode, msgs >>

\* An interaction arrives whose body is not a payload (JSON that does not
\* parse, event data of another type).
SendGarbage(h, sig) ==
    /\ nreq < MaxRequests
    /\ Available(h)
    /\ reqs' = [reqs EXCEPT ![h] =
            [IdleReq EXCEPT !.pc = "recv", !.sigOK = sig, !.dataOK = FALSE]]
    /\ nreq' = nreq + 1
    /\ lastWriter' = Forget(h)
    /\ UNCHANGED << mode, msgs >>

\* A block action arrives that is out of shape: a click on button 1 of
\* message m with one defect.
ClickMalformed(h, u, m, defect, sig) ==
    /\ nreq < MaxRequests
    /\ Available(h)
    /\ reqs' = [reqs EXCEPT ![h] =
            [IdleReq EXCEPT !.pc = "recv", !.sigOK = sig,
                !.payload = Malformed(ClickOf(u, msgs[m], 1), defect)]]
    /\ nreq' = nreq + 1
    /\ lastWriter' = Forget(h)
    /\ UNCHANGED << mode, msgs >>

\* A user types a slash command: the platform delivers an "open form" request.
SlashCommand(h, cmd, sig, ok) ==
    /\ nreq < MaxRequests
    /\ Available(h)
    /\ reqs' = [reqs EXCEPT ![h] =
            [IdleReq EXCEPT !.pc = "recv", !.kind = "slash", !.command = cmd,
                            !.sigOK = sig, !.dataOK = ok]]
    /\ nreq' = nreq + 1
    /\ lastWriter' = Forget(h)
    /\ UNCHANGED << mode, msgs >>

\* ---------------------------------------------------------------- handlers

\* ModalSocketHandler up to its outbound call: event data of another type is
\* ignored; otherwise acknowledge, then dispatch.
ModalSocketHandler(h) ==
    /\ mode = "socket"
    /\ reqs[h].pc = "recv"
    /\ reqs[h].kind = "interactive"
    /\ reqs' =
          IF ~reqs[h].dataOK
          THEN [reqs EXCEPT ![h].pc = "done", ![h].logged = TRUE]
          ELSE IF DispatchPanics(reqs[h].payload)
          THEN [reqs EXCEPT ![h].pc = "panicked", ![h].out = << AckEvent >>]
          ELSE LET calls == SocketDispatch(reqs[h].payload)
               IN  [reqs EXCEPT ![h].pc = IF calls = << >> THEN "done"
                                          ELSE "calling",
                                ![h].out = << AckEvent >> \o calls]
    /\ UNCHANGED << mode, msgs, nreq, lastWriter >>

\* Mutant: the verifier accepts every request.
verifySigningSecret_accepts(h) == TRUE

\* verifySigningSecret(r) returns no error.
verifySigningSecret(h) == reqs[h].sigOK

\* ModalHandler up to its outbound call: verify the signature, parse the
\* payload, dispatch.  A panic leaves the handler with nothing written; the
\* default case returns, which answers 200.
ModalHandler(h) ==
    /\ mode = "http"
    /\ reqs[h].pc = "recv"
    /\ reqs[h].kind = "interactive"
    /\ reqs' =
          IF ~verifySigningSecret(h)
          THEN [reqs EXCEPT ![h].pc = "done", ![h].err = TRUE,
                            ![h].logged = TRUE,
                            ![h].out = << RespondEvent(StatusUnauthorized) >>]
          ELSE IF ~reqs[h].dataOK
          THEN [reqs EXCEPT ![h].pc = "done", ![h].err = TRUE,
                            ![h].parsed = TRUE, ![h].logged = TRUE,
                            ![h].out = << RespondEvent(StatusUnauthorized) >>]
          ELSE IF DispatchPanics(reqs[h].payload)
          THEN [reqs EXCEPT ![h].pc = "panicked", ![h].parsed = TRUE]
          ELSE LET calls == Dispatch(reqs[h].payload)
               IN  IF calls = << >>
                   THEN [reqs EXCEPT ![h].pc = "done", ![h].parsed = TRUE,
                                     ![h].out = << RespondEvent(StatusOK) >>]
                   ELSE [reqs EXCEPT ![h].pc = "calling", ![h].parsed = TRUE,
                                     ![h].out = calls]
    /\ UNCHANGED << mode, msgs, nreq, lastWriter >>

\* Mutant: every command name opens the form.
HandledCommand_any(cmd) == TRUE

\* switch s.Command: case "/poll".
HandledCommand(cmd) == cmd = << "/poll" >>

\* SlashHandler up to its outbound call: verify the signature, parse the
\* command, open the form for "/poll", answer 500 for any other command.
SlashHandler(h) ==
    /\ mode = "http"
    /\ reqs[h].pc = "recv"
    /\ reqs[h].kind = "slash"
    /\ reqs' =
          IF ~verifySigningSecret(h)
          THEN [reqs EXCEPT ![h].pc = "done", ![h].err = TRUE,
                            ![h].logged = TRUE,
                            ![h].out = << RespondEvent(StatusUnauthorized) >>]
          ELSE IF ~reqs[h].dataOK
          THEN [reqs EXCEPT ![h].pc = "done", ![h].err = TRUE,
                            ![h].parsed = TRUE, ![h].logged = TRUE,
                            ![h].out = << RespondEvent(StatusUnauthorized) >>]
          ELSE IF HandledCommand(reqs[h].command)
          THEN [reqs EXCEPT ![h].pc = "calling", ![h].parsed = TRUE,
                            ![h].out = << OpenViewCall >>]
          ELSE [reqs EXCEPT ![h].pc = "done", ![h].err = TRUE,
                            ![h].parsed = TRUE,
                            ![h].out = << RespondEvent(StatusInternalServerError) >>]
    /\ UNCHANGED << mode, msgs, nreq, lastWriter >>

\* The slash commands main registers a socket handler for.
SocketCommands == { << "/poll" >>, << "/slash" >> }

\* Either socket slash handler (their bodies are the same): event data of
\* another type is ignored; otherwise acknowledge, then open the form.
SocketOpenForm(h) ==
    IF ~reqs[h].dataOK
    THEN [reqs EXCEPT ![h].pc = "done", ![h].logged = TRUE]
    ELSE [reqs EXCEPT ![h].pc = "calling",
                      ![h].out = << AckEvent, OpenViewCall >>]

\* PollSocketHandler, registered for "/poll".
PollSocketHandler(h) ==
    /\ mode = "socket"
    /\ reqs[h].pc = "recv"
    /\ reqs[h].kind = "slash"
    /\ reqs[h].command = << "/poll" >>
    /\ reqs' = SocketOpenForm(h)
    /\ UNCHANGED << mode, msgs, nreq, lastWriter >>

\* SlashSocketHandler, registered for "/slash".
SlashSocketHandler(h) ==
    /\ mode = "socket"
    /\ reqs[h].pc = "recv"
    /\ reqs[h].kind = "slash"
    /\ reqs[h].command = << "/slash" >>
    /\ reqs' = SocketOpenForm(h)
    /\ UNCHANGED << mode, msgs, nreq, lastWriter >>

\* A slash command no socket handler is registered for: no handler of the
\* program runs, nothing is acknowledged or answered.
UnregisteredCommand(h) ==
    /\ mode = "socket"
    /\ reqs[h].pc = "recv"
    /\ reqs[h].kind = "slash"
    /\ reqs[h].command \notin SocketCommands
    /\ reqs' = [reqs EXCEPT ![h].pc = "done"]
    /\ UNCHANGED << mode, msgs, nreq, lastWriter >>

\* Whether a handler logs the failure of its call: every branch does, except
\* the view-submission branch of ModalSocketHandler, which only returns.
LogsFailure(op) == mode = "http" \/ op # "post"

\* The rest of either handler once the call has returned: the webhook handler
\* writes 401 on an error and answers 200 by returning otherwise; the socket
\* handler only logs or returns.
AfterCall(h, ok) ==
    IF mode = "http"
    THEN Append(reqs[h].out,
                RespondEvent(IF ok THEN StatusOK ELSE StatusUnauthorized))
    ELSE reqs[h].out

PendingCall(h) == reqs[h].out[Len(reqs[h].out)]

\* sendMessage: the platform stores the message under a new timestamp, or fails.
PostMessageReturns(h, ok) ==
    /\ reqs[h].pc = "calling"
    /\ PendingCall(h).op = "post"
    /\ msgs' = IF ok
               THEN Append(msgs, [channel |-> PendingCall(h).channel,
                                  ts |-> Len(msgs) + 1,
                                  blocks |-> PendingCall(h).blocks])
               ELSE msgs
    /\ reqs' = [reqs EXCEPT ![h].pc = "done", ![h].err = ~ok,
                            ![h].logged = ~ok /\ LogsFailure("post"),
                            ![h].out = AfterCall(h, ok)]
    /\ UNCHANGED << mode, nreq, lastWriter >>

\* The message a call addresses: 0 when channel + timestamp name none.
Addressed(call) ==
    IF \E m \in DOMAIN msgs : msgs[m].ts = call.ts /\ msgs[m].channel = call.channel
    THEN CHOOSE m \in DOMAIN msgs :
            msgs[m].ts = call.ts /\ msgs[m].channel = call.channel
    ELSE 0

\* Mutant: the platform patches the message: it takes from the call only the
\* fields that differ from the message the payload carried and keeps the rest
\* as it holds them now.
UpdateMessageReturns_merges(h, ok) ==
    /\ reqs[h].pc = "calling"
    /\ PendingCall(h).op = "update"
    /\ LET m == Addressed(PendingCall(h))
           done == ok /\ m # 0
           old == reqs[h].payload.message.blocks
           new == PendingCall(h).blocks
       IN  /\ msgs' = IF done
                      THEN [msgs EXCEPT ![m].blocks[blockSetIndex + 1].fields =
                              [f \in DOMAIN @ |->
                                 IF new[blockSetIndex + 1].fields[f]
                                      # old[blockSetIndex + 1].fields[f]
                                 THEN new[blockSetIndex + 1].fields[f]
                                 ELSE @[f]]]
                      ELSE msgs
           /\ lastWriter' = IF done THEN h ELSE lastWriter
           /\ reqs' = [reqs EXCEPT ![h].pc = "done", ![h].err = ~done,
                                   ![h].logged = ~done /\ LogsFailure("update"),
                                   ![h].applied = done,
                                   ![h].out = AfterCall(h, done)]
    /\ UNCHANGED << mode, nreq >>

\* updateMessage: the platform replaces the block set of the addressed
\* message, whatever it holds now, or fails.
UpdateMessageReturns(h, ok) ==
    /\ reqs[h].pc = "calling"
    /\ PendingCall(h).op = "update"
    /\ LET m == Addressed(PendingCall(h))
           done == ok /\ m # 0
       IN  /\ msgs' = IF done
                      THEN [msgs EXCEPT ![m].blocks = PendingCall(h).blocks]
                      ELSE msgs
           /\ lastWriter' = IF done THEN h ELSE lastWriter
           /\ reqs' = [reqs EXCEPT ![h].pc = "done", ![h].err = ~done,
                                   ![h].logged = ~done /\ LogsFailure("update"),
                                   ![h].applied = done,
                                   ![h].out = AfterCall(h, done)]
    /\ UNCHANGED << mode, nreq >>

\* c.Client.OpenView returns: the form is shown or the call fails, which
\* either handler only logs; the webhook handler then returns, which answers 200.
OpenViewReturns(h, ok) ==
    /\ reqs[h].pc = "calling"
    /\ PendingCall(h).op = "open"
    /\ reqs' = [reqs EXCEPT ![h].pc = "done", ![h].err = ~ok,
                            ![h].logged = ~ok /\ LogsFailure("open"),
                            ![h].out = IF mode = "http"
                                       THEN Append(@, RespondEvent(StatusOK))
                                       ELSE @]
    /\ UNCHANGED << mode, msgs, nreq, lastWriter >>

\* The platform delivers a form submission or a button click.
Interact ==
    \/ \E h \in Slots, u \in Submitters, q \in Questions, cs \in ChoiceLists,
          ch \in Channels, sig \in Signatures : SubmitForm(h, u, q, cs, ch, sig)
    \/ \E h \in Slots, u \in UserIDs, m \in DOMAIN msgs, b \in 1..4,
          sig \in Signatures : ClickButton(h, u, m, b, sig)

\* The platform delivers any request.
Deliver ==
    \/ Interact
    \/ \E h \in Slots, u \in Submitters, type \in OtherKinds,
          sig \in Signatures : SendOtherKind(h, u, type, sig)
    \/ \E h \in Slots, sig \in Signatures : SendGarbage(h, sig)
    \/ \E h \in Slots, u \in Submitters, m \in DOMAIN msgs, defect \in Defects,
          sig \in Signatures : ClickMalformed(h, u, m, defect, sig)
    \/ \E h \in Slots, cmd \in Commands, sig \in Signatures, ok \in BOOLEAN :
          SlashCommand(h, cmd, sig, ok)

\* An interaction handler or the platform call it waits for takes its step.
HandleInteraction ==
    \/ \E h \in Slots : ModalSocketHandler(h)
    \/ \E h \in Slots : ModalHandler(h)
    \/ \E h \in Slots, ok \in BOOLEAN : PostMessageReturns(h, ok)
    \/ \E h \in Slots, ok \in BOOLEAN : UpdateMessageReturns(h, ok)

\* Any handler or the platform call it waits for takes its step.
Handle ==
    \/ HandleInteraction
    \/ \E h \in Slots : SlashHandler(h)
    \/ \E h \in Slots : PollSocketHandler(h)
    \/ \E h \in Slots : SlashSocketHandler(h)
    \/ \E h \in Slots : UnregisteredCommand(h)
    \/ \E h \in Slots, ok \in BOOLEAN : OpenViewReturns(h, ok)

\* Requests one after another: each is handled to its end before the next
\* is delivered.
Next ==
    \/ (\A g \in Slots : ~Running(g)) /\ Deliver
    \/ Handle

Spec == Init /\ [][Next]_vars

\* The life of the poll messages alone: form submissions and clicks, one
\* after another.
NextPoll ==
    \/ (\A g \in Slots : ~Running(g)) /\ Interact
    \/ HandleInteraction

SpecPoll == Init /\ [][NextPoll]_vars

\* Interactions racing: up to MaxInFlight form submissions and clicks are in
\* progress at the same time.
NextRace ==
    \/ Interact
    \/ HandleInteraction

SpecRace == Init /\ [][NextRace]_vars

\* Clicks whose payload carries a message the reconciler did not write, one
\* after another.
NextEdited ==
    \/ /\ \A g \in Slots : ~Running(g)
       /\ \/ \E h \in Slots, u \in Submitters, q \in Questions,
                cs \in ChoiceLists, ch \in Channels, sig \in Signatures :
                  SubmitForm(h, u, q, cs, ch, sig)
          \/ \E h \in Slots, u \in Submitters, m \in DOMAIN msgs, b \in 1..4 :
                \E groups \in DuplicateGroups(u) : ClickEdited(h, u, m, groups, b)
    \/ HandleInteraction

SpecEdited == Init /\ [][NextEdited]_vars

\* ------------------------------------------------- vocabulary of the claims

AllMentions == { Mention(u) : u \in UserIDs }

\* The mention occurs in the display string.
Occurs(mention, text) ==
    \E i \in 1..(Len(text) - Len(mention) + 1) :
        SubSeq(text, i, i + Len(mention) - 1) = mention

\* The groups (1..4) whose display string shows the mention.
GroupsOf(mention, groups) == { k \in 1..4 : Occurs(mention, groups[k]) }

\* The members a display string lists, in order; none for the sentinel.
Members(text) == IF text = Sentinel THEN << >> ELSE StringsSplit(text, Separator)

Without(mention, members) == SelectSeq(members, LAMBDA x : x # mention)

RECURSIVE IsMentionList(_)
\* A non-empty ", "-joined list of user mentions.
IsMentionList(text) ==
    \E m \in AllMentions :
        /\ Len(text) >= Len(m)
        /\ SubSeq(text, 1, Len(m)) = m
        /\ \/ Len(text) = Len(m)
           \/ /\ Len(text) > Len(m) + Len(Separator)
              /\ SubSeq(text, Len(m) + 1, Len(m) + Len(Separator)) = Separator
              /\ IsMentionList(SubSeq(text, Len(m) + Len(Separator) + 1, Len(text)))

\* The outbound calls a handler run has issued, as positions of its output.
Calls(h) == { c \in DOMAIN reqs[h].out : reqs[h].out[c].op \in {"post", "update"} }

\* Every outbound platform call of a handler run, the open-view call included.
PlatformCalls(h) ==
    { c \in DOMAIN reqs[h].out : reqs[h].out[c].op \in {"post", "update", "open"} }

\* The HTTP statuses a handler run has written or, by returning, answered.
Statuses(h) ==
    { reqs[h].out[c].status : c \in { d \in DOMAIN reqs[h].out :
                                        reqs[h].out[d].op = "respond" } }

ErrorStatuses == { StatusUnauthorized, StatusInternalServerError }

\* The outbound platform calls a handler run has issued, in order.
Issued(h) ==
    SelectSeq(reqs[h].out, LAMBDA e : e.op \in {"post", "update", "open"})

\* How often the mention is listed over the four groups.
Count(mention, groups) ==
    LET n(k) == Len(SelectSeq(Members(groups[k]), LAMBDA x : x = mention))
    IN  n(1) + n(2) + n(3) + n(4)

\* The handler of the request has run (to its call, its end or a panic).
Handled(h) == reqs[h].pc \in {"calling", "done", "panicked"}

\* A handler run that got past signature verification and reached the switch.
Dispatched(h) == reqs[h].pc \in {"calling", "done"} /\ reqs[h].sigOK

\* The one outbound call of a handler run.
TheCall(h) == reqs[h].out[CHOOSE c \in Calls(h) : TRUE]

\* A handler run that has dispatched a block action and computed its update.
Claimed(h) ==
    /\ reqs[h].payload.type = "block_actions"
    /\ \E c \in Calls(h) : reqs[h].out[c].op = "update"

Claimant(h) == Mention(reqs[h].payload.user)

\* The 1-based target group: the number on the clicked button.
Target(h) == Atoi(reqs[h].payload.actions[1].value)

\* The four display strings the handler read, and those it sent.
Before(h) == GroupTexts(reqs[h].payload.message.blocks)
After(h) ==
    GroupTexts(reqs[h].out[CHOOSE c \in Calls(h) : reqs[h].out[c].op = "update"].blocks)

\* Every four-group state written so far or about to be written.
WrittenGroups ==
    { GroupTexts(msgs[m].blocks) : m \in DOMAIN msgs }
    \cup { After(h) : h \in { g \in Slots : Claimed(g) } }

\* ------------------------------------------------------------------ claims

\* C1: starting from a freshly posted poll and applying claim events one after
\* another, after every event every user mention appears in at most one of
\* the four slot groups.
C1_AtMostOneGroup ==
    \A groups \in WrittenGroups : \A m \in AllMentions :
        Cardinality(GroupsOf(m, groups)) <= 1

\* A claimant has moved from one group to another while another user stays
\* placed: the message holds both users, each in one group.
C1_Witness ==
    \E h \in Slots :
        /\ Claimed(h) /\ reqs[h].pc = "done" /\ reqs[h].applied
        /\ GroupsOf(Claimant(h), Before(h)) # {}
        /\ GroupsOf(Claimant(h), Before(h)) # {Target(h)}
        /\ \E m \in DOMAIN msgs :
              /\ GroupTexts(msgs[m].blocks) = After(h)
              /\ \A u \in AllMentions :
                    Cardinality(GroupsOf(u, GroupTexts(msgs[m].blocks))) = 1

\* C2: every slot-group display string is either exactly the sentinel ":" or
\* a non-empty ", "-joined list of user mentions: never the empty string, and
\* never the sentinel next to a mention.
C2_SentinelOrMentions ==
    \A groups \in WrittenGroups : \A k \in 1..4 :
        groups[k] = Sentinel \/ IsMentionList(groups[k])

\* A removal has emptied a group, which shows the sentinel again, and an
\* append has replaced a sentinel.
C2_Witness ==
    \E h \in Slots :
        /\ Claimed(h) /\ reqs[h].pc = "done" /\ reqs[h].applied
        /\ \E k \in 1..4 : Before(h)[k] = Claimant(h) /\ After(h)[k] = Sentinel
        /\ \E k \in 1..4 : Before(h)[k] = Sentinel /\ After(h)[k] = Claimant(h)

\* C3: fresh claim: when the claimant is in none of the four groups, the
\* claimant becomes the last member of the target group (the only member if it
\* was the sentinel) and the other three groups are exactly as before.
C3_FreshClaim ==
    \A h \in Slots :
        (Claimed(h) /\ GroupsOf(Claimant(h), Before(h)) = {}) =>
            /\ Members(After(h)[Target(h)])
                  = Append(Members(Before(h)[Target(h)]), Claimant(h))
            /\ Before(h)[Target(h)] = Sentinel => After(h)[Target(h)] = Claimant(h)
            /\ \A k \in 1..4 : k # Target(h) => After(h)[k] = Before(h)[k]

\* The spec's example: [":", ":", ":", ":"] with a claim on index 1 gives
\* [":", claimant, ":", ":"].
C3_Witness ==
    \E h \in Slots :
        /\ Claimed(h) /\ Target(h) = 2
        /\ Before(h) = << Sentinel, Sentinel, Sentinel, Sentinel >>
        /\ After(h) = << Sentinel, Claimant(h), Sentinel, Sentinel >>

\* C4: toggle-off: when the claimant is already in the target group, the
\* claimant is removed and not re-added, so the claimant ends up in none of
\* the four groups; the target group keeps its other members in order (the
\* sentinel if there are none) and the other three groups are unchanged.
C4_ToggleOff ==
    \A h \in Slots :
        (Claimed(h) /\ Target(h) \in GroupsOf(Claimant(h), Before(h))) =>
            /\ GroupsOf(Claimant(h), After(h)) = {}
            /\ Members(After(h)[Target(h)])
                  = Without(Claimant(h), Members(Before(h)[Target(h)]))
            /\ Before(h)[Target(h)] = Claimant(h) => After(h)[Target(h)] = Sentinel
            /\ \A k \in 1..4 : k # Target(h) => After(h)[k] = Before(h)[k]

\* The spec's example: [":", claimant, ":", ":"] with the same claim on index 1
\* gives [":", ":", ":", ":"], and the message now shows it.
C4_Witness ==
    \E h \in Slots :
        /\ Claimed(h) /\ reqs[h].pc = "done" /\ reqs[h].applied
        /\ Target(h) = 2
        /\ Before(h) = << Sentinel, Claimant(h), Sentinel, Sentinel >>
        /\ After(h) = << Sentinel, Sentinel, Sentinel, Sentinel >>
        /\ \E m \in DOMAIN msgs : GroupTexts(msgs[m].blocks) = After(h)

\* C5: move: when the claimant is in a group other than the target, the same
\* call removes the claimant from that group, which keeps its other members in
\* order (the sentinel if none remain), and appends the claimant at the end of
\* the target group; the two uninvolved groups are unchanged.
C5_Move ==
    \A h \in Slots :
        (/\ Claimed(h)
         /\ GroupsOf(Claimant(h), Before(h)) # {}
         /\ Target(h) \notin GroupsOf(Claimant(h), Before(h))) =>
            \E cur \in GroupsOf(Claimant(h), Before(h)) :
                /\ Members(After(h)[cur])
                      = Without(Claimant(h), Members(Before(h)[cur]))
                /\ Before(h)[cur] = Claimant(h) => After(h)[cur] = Sentinel
                /\ Members(After(h)[Target(h)])
                      = Append(Members(Before(h)[Target(h)]), Claimant(h))
                /\ \A k \in 1..4 :
                      k \notin {cur, Target(h)} => After(h)[k] = Before(h)[k]

\* The spec's example: ["Alice, Bob", ":", ":", ":"] with Alice on index 1
\* gives ["Bob", "Alice", ":", ":"].
C5_Witness ==
    \E h \in Slots : \E bob \in AllMentions :
        /\ Claimed(h) /\ Target(h) = 2
        /\ bob # Claimant(h)
        /\ Before(h) = << Claimant(h) \o Separator \o bob,
                          Sentinel, Sentinel, Sentinel >>
        /\ After(h) = << bob, Claimant(h), Sentinel, Sentinel >>

\* C6: toggle round-trip: for every message state reached (looked at when the
\* post or update that produced it has just returned), every user absent from
\* all four groups and every button, the same claim applied twice in a row
\* returns the whole block set, and so all four display strings, to exactly
\* the values before the first claim (which show the user in no group).
C6_ToggleRoundTrip ==
    \A h \in Slots :
        (/\ reqs[h].pc = "done" /\ ~reqs[h].err /\ Calls(h) # {}
         /\ \A g \in Slots : ~Running(g)) =>
            \A m \in DOMAIN msgs :
                msgs[m].blocks = TheCall(h).blocks =>
                    \A u \in UserIDs :
                        GroupsOf(Mention(u), GroupTexts(msgs[m].blocks)) = {} =>
                            \A b \in 1..4 :
                                LET first == BlockActionsCall(
                                                ClickOf(u, msgs[m], b)).blocks
                                    second == BlockActionsCall(
                                                ClickOf(u, [msgs[m] EXCEPT
                                                    !.blocks = first], b)).blocks
                                IN  second = msgs[m].blocks

\* The second claim of such a pair has been applied: the claimant was the
\* last member of a group that holds another member, as a fresh claim leaves
\* it, and the message again shows the group without the claimant.
C6_Witness ==
    \E h \in Slots : \E other \in AllMentions :
        /\ Claimed(h) /\ reqs[h].pc = "done" /\ reqs[h].applied
        /\ other # Claimant(h)
        /\ Before(h)[Target(h)] = other \o Separator \o Claimant(h)
        /\ After(h)[Target(h)] = other
        /\ \E m \in DOMAIN msgs :
              /\ GroupTexts(msgs[m].blocks) = After(h)
              /\ GroupsOf(Claimant(h), GroupTexts(msgs[m].blocks)) = {}

\* C7: two claims racing on one message are resolved last-write-wins: when
\* two block actions by different users were computed from the same message
\* snapshot and both updates went through, the message is exactly the result
\* of the later one (the reconciler applied to that snapshot with the later
\* claimant), the earlier claimant is back where the snapshot had them, and
\* neither request saw an error or made a second call.
C7_LastWriteWins ==
    \A h1, h2 \in Slots :
        (/\ h1 # h2 /\ Claimed(h1) /\ Claimed(h2)
         /\ reqs[h1].pc = "done" /\ reqs[h2].pc = "done"
         /\ reqs[h1].applied /\ reqs[h2].applied /\ lastWriter = h2
         /\ reqs[h1].payload.message = reqs[h2].payload.message
         /\ reqs[h1].payload.channel = reqs[h2].payload.channel
         /\ reqs[h1].payload.user # reqs[h2].payload.user) =>
            /\ \E m \in DOMAIN msgs :
                  /\ msgs[m].ts = reqs[h2].payload.message.ts
                  /\ GroupTexts(msgs[m].blocks)
                        = updateGroups(Claimant(h2), Target(h2) - 1, Before(h2))
                  /\ GroupsOf(Claimant(h1), GroupTexts(msgs[m].blocks))
                        = GroupsOf(Claimant(h1), Before(h1))
            /\ Cardinality(Calls(h1)) = 1 /\ Cardinality(Calls(h2)) = 1
            /\ ~reqs[h1].err /\ ~reqs[h2].err

\* Two users clicked on the same state of the message and both updates were
\* applied: the placement the earlier update made is no longer shown.
C7_Witness ==
    \E h1, h2 \in Slots :
        /\ h1 # h2 /\ Claimed(h1) /\ Claimed(h2)
        /\ reqs[h1].pc = "done" /\ reqs[h2].pc = "done"
        /\ reqs[h1].applied /\ reqs[h2].applied /\ lastWriter = h2
        /\ reqs[h1].payload.message = reqs[h2].payload.message
        /\ reqs[h1].payload.user # reqs[h2].payload.user
        /\ GroupsOf(Claimant(h1), After(h1)) # {}
        /\ \E m \in DOMAIN msgs :
              /\ msgs[m].ts = reqs[h2].payload.message.ts
              /\ GroupsOf(Claimant(h1), GroupTexts(msgs[m].blocks)) = {}
              /\ GroupsOf(Claimant(h2), GroupTexts(msgs[m].blocks)) # {}

\* C8: a view submission results in exactly one post-message call and no
\* update-message call; the channel is the selected channel, or the submitting
\* user's identifier when none was selected; the message carries the question
\* as header, four buttons valued "1".."4" labelled with the four choices in
\* order, and four slot fields all equal to the sentinel.
C8_ViewSubmissionPosts ==
    \A h \in Slots :
        (Dispatched(h) /\ reqs[h].payload.type = "view_submission") =>
            LET v == reqs[h].payload.values
                selected == v[<< "channel" >>][<< "channelActionID" >>].SelectedConversation
                question == v[<< "question" >>][<< "question" >>].Value
                choice(n) == v[<< "choice" >> \o << IdDigits[n] >>]
                              [<< "choice" >> \o << IdDigits[n] >>].Value
                call == TheCall(h)
            IN  /\ Cardinality(Calls(h)) = 1
                /\ call.op = "post"
                /\ call.channel = IF selected = << >> THEN reqs[h].payload.user
                                  ELSE selected
                /\ Len(call.blocks) = 3
                /\ call.blocks[1].text.text = question
                /\ Len(call.blocks[2].elements) = 4
                /\ \A n \in 1..4 :
                      /\ call.blocks[2].elements[n].value = << IdDigits[n] >>
                      /\ call.blocks[2].elements[n].text.text = choice(n)
                /\ Len(call.blocks[3].fields) = 8
                /\ \A n \in 1..4 : call.blocks[3].fields[2 * n].text = << ":" >>

\* The spec's scenario: a submission of the question "Lunch?" with no channel
\* selected has been posted to the submitting user.
C8_Witness ==
    \E h \in Slots :
        /\ Dispatched(h) /\ reqs[h].payload.type = "view_submission"
        /\ reqs[h].pc = "done" /\ ~reqs[h].err
        /\ reqs[h].payload.values[<< "channel" >>][<< "channelActionID" >>]
              .SelectedConversation = << >>
        /\ \E m \in DOMAIN msgs :
              /\ msgs[m].channel = reqs[h].payload.user
              /\ msgs[m].blocks = TheCall(h).blocks
              /\ msgs[m].blocks[1].text.text = << "Lunch?" >>

\* C9: a block action results in exactly one update-message call and no
\* post-message call, addressed to the channel and timestamp of the payload's
\* message; its block set differs from the payload's message only in fields
\* 1, 3, 5, 7 of block 2, which hold the reconciler's output in slot order.
C9_BlockActionUpdates ==
    \A h \in Slots :
        (Dispatched(h) /\ reqs[h].payload.type = "block_actions") =>
            LET i == reqs[h].payload
                old == i.message.blocks
                call == TheCall(h)
                new == call.blocks
                read == << old[3].fields[2].text, old[3].fields[4].text,
                           old[3].fields[6].text, old[3].fields[8].text >>
                reconciled == updateGroups(Claimant(h), Target(h) - 1, read)
            IN  /\ Cardinality(Calls(h)) = 1
                /\ call.op = "update"
                /\ call.channel = i.channel
                /\ call.ts = i.message.ts
                /\ Len(new) = Len(old)
                /\ new[1] = old[1]
                /\ new[2] = old[2]
                /\ [new[3] EXCEPT !.fields = << >>] = [old[3] EXCEPT !.fields = << >>]
                /\ Len(new[3].fields) = Len(old[3].fields)
                /\ \A n \in 1..4 :
                      /\ new[3].fields[2 * n - 1] = old[3].fields[2 * n - 1]
                      /\ new[3].fields[2 * n]
                            = [old[3].fields[2 * n] EXCEPT !.text = reconciled[n]]

\* An update has been applied: the message differs from the one the payload
\* carried, in a slot field other than the first.
C9_Witness ==
    \E h \in Slots :
        /\ Dispatched(h) /\ reqs[h].payload.type = "block_actions"
        /\ reqs[h].pc = "done" /\ reqs[h].applied
        /\ Target(h) > 1
        /\ \E m \in DOMAIN msgs :
              /\ msgs[m].ts = reqs[h].payload.message.ts
              /\ msgs[m].channel = reqs[h].payload.channel
              /\ msgs[m].blocks = TheCall(h).blocks
              /\ msgs[m].blocks # reqs[h].payload.message.blocks

\* C10: every interaction is acknowledged to its transport on receipt: the
\* acknowledgement (the socket Ack, or the HTTP response) comes before the
\* handler's post-message or update-message call, and how a finished run has
\* acknowledged does not depend on the outcome of that call (it carries the
\* success status or none, never the status of a failed call).
C10_AckOnReceipt ==
    \A h \in Slots :
        /\ \A c \in Calls(h) :
              \E a \in 1..(c - 1) : reqs[h].out[a].op \in {"ack", "respond"}
        /\ (reqs[h].pc = "done" /\ Calls(h) # {}) =>
              \A a \in DOMAIN reqs[h].out :
                  reqs[h].out[a].op \in {"ack", "respond"} =>
                      reqs[h].out[a].status \in {NoStatus, StatusOK}

\* C11: when signature verification of an inbound HTTP request fails, the
\* handler (SlashHandler or ModalHandler) answers with an unauthorized response
\* and stops: the payload is never parsed and no open-view, post-message or
\* update-message call is made; and whenever a payload has been parsed, the
\* signature check has passed before.
C11_SignatureFirst ==
    \A h \in Slots :
        /\ (mode = "http" /\ Handled(h) /\ ~reqs[h].sigOK) =>
              /\ reqs[h].pc = "done"
              /\ reqs[h].out = << RespondEvent(StatusUnauthorized) >>
              /\ ~reqs[h].parsed
              /\ PlatformCalls(h) = {}
        /\ (mode = "http" /\ reqs[h].parsed) => reqs[h].sigOK

\* A badly signed click on a posted poll has been answered 401, and the poll
\* still shows four empty groups.
C11_Witness ==
    \E h \in Slots :
        /\ mode = "http" /\ ~reqs[h].sigOK /\ reqs[h].pc = "done"
        /\ reqs[h].payload.type = "block_actions"
        /\ Statuses(h) = { StatusUnauthorized }
        /\ \E m \in DOMAIN msgs :
              /\ msgs[m].ts = reqs[h].payload.message.ts
              /\ GroupTexts(msgs[m].blocks)
                    = << Sentinel, Sentinel, Sentinel, Sentinel >>

\* C12: only one slash command name opens the poll form, in both deployment
\* modes: an "open form" request whose command name is "/poll" produces one
\* open-view call, and a request with any other command name is rejected with
\* an error response and produces no open-view call.
C12_OnlyPollOpensForm ==
    \A h \in Slots :
        (/\ reqs[h].kind = "slash" /\ reqs[h].pc = "done"
         /\ reqs[h].sigOK /\ reqs[h].dataOK) =>
            IF reqs[h].command = << "/poll" >>
            THEN /\ Cardinality(PlatformCalls(h)) = 1
                 /\ \A c \in PlatformCalls(h) : reqs[h].out[c].op = "open"
            ELSE /\ PlatformCalls(h) = {}
                 /\ Statuses(h) \cap ErrorStatuses # {}

\* C13: an interaction whose payload kind is neither "view submission" nor
\* "block action" is a no-op: the dispatcher makes no post-message,
\* update-message or open-view call and does not answer with an error
\* response.
C13_OtherKindsIgnored ==
    \A h \in Slots :
        (/\ reqs[h].kind = "interactive" /\ Handled(h)
         /\ reqs[h].sigOK /\ reqs[h].dataOK
         /\ reqs[h].payload.type \notin {"view_submission", "block_actions"}) =>
            /\ reqs[h].pc = "done"
            /\ PlatformCalls(h) = {}
            /\ ~reqs[h].err
            /\ Statuses(h) \cap ErrorStatuses = {}

\* A "view closed" interaction sent to the webhook has been answered 200 with
\* no call made.
C13_Witness ==
    \E h \in Slots :
        /\ mode = "http" /\ reqs[h].pc = "done" /\ reqs[h].sigOK
        /\ reqs[h].payload.type = "view_closed"
        /\ reqs[h].out = << RespondEvent(StatusOK) >>

C15_FirstGroupIsCurrent ==
    \A h \in Slots :
        (/\ Handled(h) /\ reqs[h].sigOK
         /\ reqs[h].payload.type = "block_actions"
         /\ Cardinality(GroupsOf(Claimant(h), Before(h))) > 1) =>
            LET held == GroupsOf(Claimant(h), Before(h))
                cur == CHOOSE k \in held : \A j \in held : k <= j
            IN  /\ reqs[h].pc # "panicked"
                /\ Members(After(h)[cur])
                      = remove(Claimant(h), Members(Before(h)[cur]))
                /\ \A k \in 1..4 :
                      k \notin {cur, Target(h)} =>
                          Members(After(h)[k]) = Members(Before(h)[k])
                /\ Target(h) # cur =>
                      Members(After(h)[Target(h)])
                          = Append(Members(Before(h)[Target(h)]), Claimant(h))

\* C16: the positional contract between writer and reader stays in sync over
\* the whole life of a poll message: every message, as posted and after any
\* sequence of claim events, has three blocks (header, buttons, section); the
\* section at block index 2 has eight fields with the choice labels at
\* positions 0, 2, 4, 6 and the slot groups at positions 1, 3, 5, 7, which are
\* the positions the block-action branch reads and rewrites; and slot group N
\* written by an update is what the message shows as slot group N.
C16_PositionalContract ==
    /\ \A m \in DOMAIN msgs :
          LET b == msgs[m].blocks
          IN  /\ Len(b) = 3
              /\ b[1].type = "section" /\ b[1].text.type = "plain_text"
              /\ b[2].type = "actions" /\ Len(b[2].elements) = 4
              /\ b[3].type = "section" /\ Len(b[3].fields) = 8
              /\ \A n \in 0..3 :
                    /\ b[3].fields[2 * n + 1].type = "plain_text"
                    /\ b[3].fields[2 * n + 1].text = b[2].elements[n + 1].text.text
                    /\ b[3].fields[2 * n + 2].type = "mrkdwn"
                    /\ \/ b[3].fields[2 * n + 2].text = << ":" >>
                       \/ IsMentionList(b[3].fields[2 * n + 2].text)
    /\ \A h \in Slots :
          (Claimed(h) /\ lastWriter = h) =>
              \E m \in DOMAIN msgs :
                  /\ msgs[m].ts = reqs[h].payload.message.ts
                  /\ \A n \in 0..3 :
                        msgs[m].blocks[3].fields[2 * n + 2].text
                            = updateGroups(Claimant(h), Target(h) - 1,
                                  [k \in 1..4 |-> reqs[h].payload.message
                                        .blocks[3].fields[2 * k].text])[n + 1]

\* An update has read back a group that an earlier update wrote, left it in
\* place and written another: the message shows two groups with a member.
C16_Witness ==
    \E h \in Slots : \E n \in 1..4 :
        /\ Claimed(h) /\ lastWriter = h /\ n # Target(h)
        /\ Before(h)[n] # Sentinel
        /\ Before(h)[Target(h)] = Sentinel
        /\ \E m \in DOMAIN msgs :
              /\ msgs[m].blocks[3].fields[2 * n].text = Before(h)[n]
              /\ msgs[m].blocks[3].fields[2 * Target(h)].text = Claimant(h)

\* The shape the block-action branch expects of its payload.
WellShaped(i) ==
    /\ Len(i.actions) >= 1
    /\ i.actions[1].value \in { << "1" >>, << "2" >>, << "3" >>, << "4" >> }
    /\ Len(i.message.blocks) >= 3
    /\ i.message.blocks[3].type = "section"
    /\ Len(i.message.blocks[3].fields) = 8

\* C17: a block-action payload of unexpected shape (a message with fewer than
\* three blocks, a block 2 that is not a section with eight fields, an empty
\* list of block actions, a button value that is not one of "1".."4") is
\* rejected with an unauthorized- or server-error-class response and logged:
\* the handler does not crash and no update-message or post-message call is
\* made.
C17_MalformedRejected ==
    \A h \in Slots :
        (/\ Handled(h) /\ reqs[h].kind = "interactive"
         /\ reqs[h].sigOK /\ reqs[h].dataOK
         /\ reqs[h].payload.type = "block_actions"
         /\ ~WellShaped(reqs[h].payload)) =>
            /\ reqs[h].pc = "done"
            /\ Statuses(h) \cap ErrorStatuses # {}
            /\ reqs[h].logged
            /\ PlatformCalls(h) = {}

\* C18: no downstream call is retried: each inbound request (open form, form
\* submitted, block action) leads to at most one outbound platform call, and
\* when that call fails the handler logs the failure and finishes the request
\* without issuing a second call and without terminating the service, which
\* goes on to handle later requests.
C18_NoRetry ==
    \A h \in Slots :
        /\ Cardinality(PlatformCalls(h)) <= 1
        /\ (Handled(h) /\ reqs[h].pc # "calling"
            /\ PlatformCalls(h) # {} /\ reqs[h].err) =>
              /\ reqs[h].pc = "done"
              /\ reqs[h].logged
              /\ nreq < MaxRequests => ENABLED Deliver

\* C19: the two deployment modes have the same dispatch semantics: for every
\* interaction payload (view submission, block action, or any other kind), the
\* webhook handler (ModalHandler) and the streaming-connection handler
\* (ModalSocketHandler) issue the same outbound call, with the same kind,
\* channel, timestamp and block content, or both issue none: what the handler
\* of the running mode has issued is what the other handler's switch gives.
C19_SameDispatch ==
    \A h \in Slots :
        (/\ Handled(h) /\ reqs[h].kind = "interactive"
         /\ reqs[h].sigOK /\ reqs[h].dataOK) =>
            Issued(h) = IF DispatchPanics(reqs[h].payload) THEN << >>
                        ELSE IF mode = "http"
                        THEN SocketDispatch(reqs[h].payload)
                        ELSE Dispatch(reqs[h].payload)

\* In socket mode a second user's click on a poll posted to a selected
\* channel has been applied, and the update is the one ModalHandler computes.
C19_Witness ==
    \E h \in Slots :
        /\ mode = "socket" /\ Claimed(h) /\ reqs[h].pc = "done" /\ reqs[h].applied
        /\ reqs[h].payload.channel = << "C", "1" >>
        /\ reqs[h].payload.user # << "U", "1" >>
        /\ Issued(h) = << BlockActionsCall(reqs[h].payload) >>
        /\ \E m \in DOMAIN msgs : msgs[m].blocks = Issued(h)[1].blocks

\* C20: starting from a freshly posted poll message and applying any sequence
\* of claim events one after another, no user mention ever occurs more than
\* once in total over the four groups, so no group lists the same user twice;
\* hence remove's deletion of the first occurrence removes the claimant
\* completely.
C20_NoMentionTwice ==
    /\ \A groups \in WrittenGroups : \A m \in AllMentions : Count(m, groups) <= 1
    /\ \A h \in Slots : \A k \in 1..4 :
          (Claimed(h) /\ Occurs(Claimant(h), Before(h)[k])) =>
              ~contains(Claimant(h), remove(Claimant(h), Members(Before(h)[k])))

\* A claimant listed second in a group has moved to another group: the
\* message lists the claimant once, and the group left keeps its first member.
C20_Witness ==
    \E h \in Slots : \E other \in AllMentions : \E k \in 1..4 :
        /\ Claimed(h) /\ reqs[h].pc = "done" /\ reqs[h].applied
        /\ other # Claimant(h) /\ k # Target(h)
        /\ Before(h)[k] = other \o Separator \o Claimant(h)
        /\ After(h)[k] = other
        /\ Count(Claimant(h), After(h)) = 1
        /\ \E m \in DOMAIN msgs : GroupTexts(msgs[m].blocks) = After(h)

\* C21: the membership invariant and the sentinel invariant survive racing
\* claims: when block actions by any users are computed from earlier, possibly
\* stale, snapshots of the message and their updates are applied in any order,
\* every message state ever written (stored, or computed and about to be
\* sent) has each user in at most one group and no empty display string: each
\* string is the sentinel or a list of mentions.
C21_InvariantsSurviveRaces ==
    \A groups \in WrittenGroups :
        /\ \A u \in UserIDs :
              Cardinality({ k \in 1..4 : Occurs(Mention(u), groups[k]) }) <= 1
        /\ \A k \in 1..4 :
              /\ groups[k] # << >>
              /\ groups[k] # Sentinel => IsMentionList(groups[k])

\* One user clicked two different buttons on the same state of the message
\* and both updates were applied, the later one computed from a snapshot that
\* does not show the earlier one: the message shows the user once, in the
\* group of the later click.
C21_Witness ==
    \E h1, h2 \in Slots :
        /\ h1 # h2 /\ Claimed(h1) /\ Claimed(h2)
        /\ reqs[h1].applied /\ reqs[h2].applied /\ lastWriter = h2
        /\ reqs[h1].payload.user = reqs[h2].payload.user
        /\ reqs[h1].payload.message = reqs[h2].payload.message
        /\ Target(h1) # Target(h2)
        /\ GroupsOf(Claimant(h1), Before(h1)) = {}
        /\ After(h1) # Before(h2)
        /\ \E m \in DOMAIN msgs :
              /\ msgs[m].ts = reqs[h2].payload.message.ts
              /\ GroupsOf(Claimant(h2), GroupTexts(msgs[m].blocks)) = {Target(h2)}

====
